---- MODULE Spec2Model ----
(***************************************************************************)
(* The word game "Ghost" (lib/game.py, lib/player.py): the Game object,    *)
(* its roster of Player objects, the turn loop of Game.start() and the     *)
(* Player operations.                                                      *)
(*                                                                         *)
(* A Python str is a sequence of one-character strings.  A Player object   *)
(* is identified by its id (0, 1, ...: the value of game.player_count when *)
(* the object was created).                                                *)
(*                                                                         *)
(* Spec      : a game created by Game(...) and run by Game.start(), every  *)
(*             turn a HumanPlayer.take_turn() driven by console input.     *)
(* SpecCalls : the same loop, the turn being a direct call of a Player or  *)
(*             Game method (as a test driver calls them), which reaches    *)
(*             the two challenge methods.                                  *)
(* SpecWords : the loop with letter plays and is_valid_intended_word.      *)
(* SpecRoster: the loop with forfeits and the two neighbour lookups.       *)
(* SpecFair  : Spec on the games app.py sets up, the statements of         *)
(*             start()'s loop weakly fair.                                 *)
(* SpecConfig: Game(...) called with any player configurations and any     *)
(*             dictionary name.                                            *)
(***************************************************************************)
EXTENDS Integers, Sequences, FiniteSets, TLC

\* ------------------------------------------------------------------ bounds
\* Largest number of player configurations handed to Game(...).
MaxPlayers == 3
\* Longest ghost word handed to Game(...) (a prefix of 'ghost').
MaxGhostLen == 2
\* Letters are played only while the fragment is shorter than this.
MaxFragLen == 2
\* Rounds are lost only by a player with fewer than num_strikes_allowed plus
\* this many strikes.
MaxExtraStrikes == 1

\* ------------------------------------------------------- python primitives
\* None (game.current_player before start(); no winner announced yet).
None == -1

\* The part of string.ascii_lowercase the model plays with.
ascii_lowercase == {"a", "b"}

\* Characters str.strip() removes.
whitespace == {" ", "\n"}

\* str.lower() / str.upper() on one character.
lower_char(c) ==
    CASE c = "A" -> "a"
      [] c = "B" -> "b"
      [] c = "G" -> "g"
      [] c = "H" -> "h"
      [] c = "O" -> "o"
      [] c = "S" -> "s"
      [] c = "T" -> "t"
      [] OTHER -> c

upper_char(c) ==
    CASE c = "a" -> "A"
      [] c = "b" -> "B"
      [] c = "g" -> "G"
      [] c = "h" -> "H"
      [] c = "o" -> "O"
      [] c = "s" -> "S"
      [] c = "t" -> "T"
      [] OTHER -> c

\* str.lower() / str.upper().
lower(s) == [i \in 1..Len(s) |-> lower_char(s[i])]

upper(s) == [i \in 1..Len(s) |-> upper_char(s[i])]

\* str.strip(): drop leading and trailing whitespace.
RECURSIVE lstrip(_)
lstrip(s) ==
    IF s # <<>> /\ Head(s) \in whitespace THEN lstrip(Tail(s)) ELSE s

RECURSIVE rstrip(_)
rstrip(s) ==
    IF s # <<>> /\ s[Len(s)] \in whitespace
    THEN rstrip(SubSeq(s, 1, Len(s) - 1))
    ELSE s

strip(s) == rstrip(lstrip(s))

\* str.startswith(prefix).
startswith(s, prefix) ==
    /\ Len(prefix) <= Len(s)
    /\ SubSeq(s, 1, Len(prefix)) = prefix

\* x in list.
InList(list, x) == \E i \in 1..Len(list) : list[i] = x

\* list.index(x), 0-based; defined when x is in the list.
ListIndex(list, x) ==
    (CHOOSE i \in 1..Len(list) :
        /\ list[i] = x
        /\ \A j \in 1..(i - 1) : list[j] # x) - 1

\* list[i] for a 0-based Python index is defined (no IndexError).
HasItem(list, i) == i < Len(list) /\ i >= 0 - Len(list)

\* list[i] for a 0-based Python index; a negative index counts from the end.
GetItem(list, i) == IF i >= 0 THEN list[i + 1] ELSE list[Len(list) + i + 1]

\* list.remove(x): the list without the first occurrence of x.
ListRemove(list, x) ==
    LET k == ListIndex(list, x) + 1
    IN  SubSeq(list, 1, k - 1) \o SubSeq(list, k + 1, Len(list))

\* ------------------------------------------------------------------- state
VARIABLES
    player_configs,         \* the player_type of each entry handed to Game(...)
    word_list_type,         \* the word_list_type handed to Game(...)
    player_count,           \* Game.player_count
    players,                \* Game.players: the roster, a list of Player ids
    current_player,         \* Game.current_player
    min_word_length,        \* Game.min_word_length
    ghost_word,             \* Game.ghost_word
    num_strikes_allowed,    \* Game.num_strikes_allowed
    word_list,              \* Game.word_list
    current_word_fragment,  \* Game.current_word_fragment
    game_is_over,           \* Game.game_is_over
    current_strikes,        \* Player.current_strikes, by Player id
    is_eliminated,          \* Player.is_eliminated, by Player id
    next_player,            \* the local next_player of Game.start()
    pc,                     \* where Game.start() is
    exception,              \* the exception that ended start(), or "None"
    winner,                 \* the player check_for_game_over() announced
    played,                 \* letters appended since the last lost round
    author,                 \* who appended the fragment's last letter, or None
    prev_turn,              \* the turn before this one: who took it, on which roster
    this_turn,              \* the turn under way: who takes it, on which roster
    last                    \* the most recent operation and the state before it

vars == <<player_configs, word_list_type, player_count, players,
          current_player, min_word_length, ghost_word, num_strikes_allowed,
          word_list, current_word_fragment, game_is_over, current_strikes,
          is_eliminated, next_player, pc, exception, winner, played, author,
          prev_turn, this_turn, last>>

config == <<player_configs, word_list_type, min_word_length, ghost_word,
            num_strikes_allowed, word_list>>

\* Every Player object ever created for this game.
AllPlayers == DOMAIN current_strikes

\* ------------------------------------------------------------ construction
\* The dictionary resources Game.word_list_filepaths names, as readlines()
\* returns them: one entry per line, the line terminator included.
word_list_file(list_type) ==
    IF list_type = "scrabble"
    THEN << <<"a", "b", "\n">>, <<"\n">>, <<"B", "a", " ", "\n">> >>
    ELSE << <<"a", "\n">>, <<"a", "b", "b", "\n">> >>

word_list_filepaths == {"scrabble", "webster"}

\* Game.load_word_list: the stripped, lower-cased lines whose stripped length
\* is at least min_length, in file order.
RECURSIVE load_lines(_, _)
load_lines(raw, min_length) ==
    IF raw = <<>> THEN <<>>
    ELSE IF Len(strip(Head(raw))) >= min_length
         THEN <<lower(strip(Head(raw)))>> \o load_lines(Tail(raw), min_length)
         ELSE load_lines(Tail(raw), min_length)

load_word_list(list_type, min_length) ==
    load_lines(word_list_file(list_type), min_length)

\* The values of min_word_length handed to Game(...).
MinWordLengths == {0, 2}

\* The ghost words handed to Game(...): the prefixes of 'ghost'.
GhostWords == {SubSeq(<<"g", "h", "o", "s", "t">>, 1, k) : k \in 0..MaxGhostLen}

\* Player.init_players_from_configs over n configurations of type 'human'
\* (or None): one HumanPlayer per entry, ids 0..n-1 in configuration order.
init_players_from_configs(n) == [i \in 1..n |-> i - 1]

NoTurn == [taker |-> None, roster |-> <<>>]

\* Game.__init__ for n configurations of type 'human', ghost word g, minimum
\* word length m and dictionary t.
NewGame(n, g, m, t) ==
    /\ player_configs = [i \in 1..n |-> "human"]
    /\ word_list_type = t
    /\ players = init_players_from_configs(n)
    /\ player_count = n
    /\ current_player = None
    /\ min_word_length = m
    /\ ghost_word = upper(g)
    /\ num_strikes_allowed = Len(g)
    /\ word_list = load_word_list(t, m)
    /\ current_word_fragment = <<>>
    /\ game_is_over = FALSE
    /\ current_strikes = [p \in 0..(n - 1) |-> 0]
    /\ is_eliminated = [p \in 0..(n - 1) |-> FALSE]
    /\ next_player = None
    /\ pc = "created"
    /\ exception = "None"
    /\ winner = None
    /\ played = <<>>
    /\ author = None
    /\ prev_turn = NoTurn
    /\ this_turn = NoTurn
    /\ last = [op |-> "init", self |-> None, arg |-> <<>>, raised |-> FALSE,
               result |-> FALSE, fragment |-> <<>>,
               strikes |-> [p \in 0..(n - 1) |-> 0],
               roster |-> init_players_from_configs(n), lost |-> <<>>,
               returned |-> <<>>]

\* Game.__init__, then the caller about to call start().
Init ==
    \E n \in 0..MaxPlayers, g \in GhostWords, m \in MinWordLengths,
       t \in word_list_filepaths :
        NewGame(n, g, m, t)

\* Largest number of player configurations of any type handed to Game(...).
MaxConfigs == 3

\* The player_type entries a caller can hand to Game(...): "None" is Python's
\* None, "robot" a type no class implements.
PlayerTypes == {"human", "computer", "None", "robot"}

\* The word_list_type values a caller can hand to Game(...).
WordListTypes == word_list_filepaths \cup {"oxford"}

\* The loop of Player.init_players_from_configs from its k-th entry on, with
\* the list built so far and game.player_count: the resulting list, count and
\* exception.  The local `player` is bound once a first Player was built, and
\* is then the last one appended.
RECURSIVE init_players_loop(_, _, _, _)
init_players_loop(configs, k, built, count) ==
    IF k > Len(configs)
    THEN [players |-> built, player_count |-> count, exception |-> "None"]
    ELSE LET player_type == IF configs[k] = "None" THEN "human" ELSE configs[k]
         IN  IF player_type = "human"
             THEN init_players_loop(configs, k + 1, Append(built, count),
                                    count + 1)
             ELSE IF player_type = "computer"
             THEN [players |-> built, player_count |-> count,
                   exception |-> "NotImplementedError"]
             ELSE IF built = <<>>
             THEN [players |-> built, player_count |-> count,
                   exception |-> "UnboundLocalError"]
             ELSE init_players_loop(configs, k + 1,
                                    Append(built, built[Len(built)]), count)

\* Player.init_players_from_configs on any list of configurations.
init_players_from(configs) == init_players_loop(configs, 1, <<>>, 0)

\* Before Game(...) is called: the arguments are chosen, there is no game.
InitConfig ==
    /\ player_configs \in UNION {[1..n -> PlayerTypes] : n \in 0..MaxConfigs}
    /\ word_list_type \in WordListTypes
    /\ players = <<>>
    /\ player_count = 0
    /\ current_player = None
    /\ min_word_length = 0
    /\ ghost_word = <<>>
    /\ num_strikes_allowed = 0
    /\ word_list = <<>>
    /\ current_word_fragment = <<>>
    /\ game_is_over = FALSE
    /\ current_strikes = <<>>
    /\ is_eliminated = <<>>
    /\ next_player = None
    /\ pc = "new"
    /\ exception = "None"
    /\ winner = None
    /\ played = <<>>
    /\ author = None
    /\ prev_turn = NoTurn
    /\ this_turn = NoTurn
    /\ last = [op |-> "none", self |-> None, arg |-> <<>>, raised |-> FALSE,
               result |-> FALSE, fragment |-> <<>>, strikes |-> <<>>,
               roster |-> <<>>, lost |-> <<>>, returned |-> <<>>]

\* Game(player_configs, min_word_length, ghost_word, word_list_type): the
\* players are built first, then the dictionary name is tested.  An exception
\* leaves the caller without a game.
Construct ==
    /\ pc = "new"
    /\ LET built == init_players_from(player_configs)
           failure == IF built.exception # "None" THEN built.exception
                      ELSE IF word_list_type \notin word_list_filepaths
                      THEN "ValueError"
                      ELSE "None"
       IN  IF failure # "None"
           THEN /\ pc' = "crashed"
                /\ exception' = failure
                /\ last' = [last EXCEPT !.op = "construct", !.raised = TRUE]
                /\ UNCHANGED <<players, player_count, min_word_length,
                               ghost_word, num_strikes_allowed, word_list,
                               current_strikes, is_eliminated>>
           ELSE \E g \in GhostWords, m \in MinWordLengths :
                /\ players' = built.players
                /\ player_count' = built.player_count
                /\ min_word_length' = m
                /\ ghost_word' = upper(g)
                /\ num_strikes_allowed' = Len(g)
                /\ word_list' = load_word_list(word_list_type, m)
                /\ current_strikes' = [p \in 0..(built.player_count - 1) |-> 0]
                /\ is_eliminated' = [p \in 0..(built.player_count - 1) |-> FALSE]
                /\ pc' = "created"
                /\ last' = [last EXCEPT
                               !.op = "construct",
                               !.strikes = [p \in 0..(built.player_count - 1) |-> 0],
                               !.roster = built.players]
                /\ UNCHANGED exception
    /\ UNCHANGED <<player_configs, word_list_type, current_player,
                   current_word_fragment, game_is_over, next_player, winner,
                   played, author, prev_turn, this_turn>>

\* Calls of Game(...) with any arguments.
NextConfig == Construct

SpecConfig == InitConfig /\ [][NextConfig]_vars

\* What `last` records of an operation op called on player self with
\* argument arg: the state it started from.
Record(op, self, arg, raised, result, lost) ==
    [op |-> op, self |-> self, arg |-> arg, raised |-> raised,
     result |-> result, fragment |-> current_word_fragment,
     strikes |-> current_strikes, roster |-> players, lost |-> lost,
     returned |-> <<>>]

\* -------------------------------------------------------------- Game methods
\* Game.is_valid_word.
is_valid_word(word) == InList(word_list, word)

\* The value None where a str is expected (an intended word).
NoWord == <<"None">>

\* An is_valid_intended_word that skips the prefix test.
is_valid_intended_word_any_word(intended_word) ==
    intended_word # NoWord /\ is_valid_word(intended_word)

\* Game.is_valid_intended_word.
is_valid_intended_word(intended_word) ==
    IF intended_word = NoWord THEN FALSE
    ELSE LET is_playable == startswith(intended_word, current_word_fragment)
             is_valid == is_valid_word(intended_word)
         IN  is_playable /\ is_valid

\* Game.reset_current_word_fragment: the fragment it leaves.
reset_current_word_fragment == <<>>

\* Game.get_next_player raises no exception.
next_player_defined ==
    /\ InList(players, current_player)
    /\ LET idx == ListIndex(players, current_player)
       IN  HasItem(players, IF idx + 1 = player_count THEN 0 ELSE idx + 1)

\* A get_next_player that does not wrap: past the end it stays on the last.
get_next_player_no_wrap ==
    LET current_player_idx == ListIndex(players, current_player)
        next_player_idx == IF current_player_idx + 1 = player_count
                           THEN current_player_idx
                           ELSE current_player_idx + 1
    IN  GetItem(players, next_player_idx)

\* A get_next_player that walks the roster the wrong way round.
get_next_player_backward ==
    LET current_player_idx == ListIndex(players, current_player)
        next_player_idx == IF current_player_idx = 0
                           THEN player_count - 1
                           ELSE current_player_idx - 1
    IN  GetItem(players, next_player_idx)

\* Game.get_next_player.
get_next_player ==
    LET current_player_idx == ListIndex(players, current_player)
        next_player_idx == IF current_player_idx + 1 = player_count
                           THEN 0
                           ELSE current_player_idx + 1
    IN  GetItem(players, next_player_idx)

\* Game.get_previous_player raises no exception.
previous_player_defined ==
    /\ InList(players, current_player)
    /\ LET idx == ListIndex(players, current_player)
       IN  HasItem(players, IF idx = 0 THEN player_count - 1 ELSE idx - 1)

\* A get_previous_player that does not wrap: before the first it stays there.
get_previous_player_no_wrap ==
    LET current_player_idx == ListIndex(players, current_player)
        previous_player_idx == IF current_player_idx = 0
                               THEN 0
                               ELSE current_player_idx - 1
    IN  GetItem(players, previous_player_idx)

\* A get_previous_player that goes by Player id, whoever is still playing.
get_previous_player_by_id ==
    (current_player + Cardinality(AllPlayers) - 1) % Cardinality(AllPlayers)

\* Game.get_previous_player.
get_previous_player ==
    LET current_player_idx == ListIndex(players, current_player)
        previous_player_idx == IF current_player_idx = 0
                               THEN player_count - 1
                               ELSE current_player_idx - 1
    IN  GetItem(players, previous_player_idx)

\* Game.get_previous_player, called with game.current_player set to player.
get_previous_player_of(player) ==
    LET current_player_idx == ListIndex(players, player)
        previous_player_idx == IF current_player_idx = 0
                               THEN player_count - 1
                               ELSE current_player_idx - 1
    IN  GetItem(players, previous_player_idx)

\* Game.eliminate_player: the roster without the player, the count re-read.
eliminate_player(player) ==
    /\ players' = ListRemove(players, player)
    /\ player_count' = Len(players')

\* A lose_round that counts two strikes for a lost round.
strikes_after_loss_double(self) == current_strikes[self] + 2

\* Player.lose_round: the strike count it leaves for the player.
strikes_after_loss(self) == current_strikes[self] + 1

\* An elimination test that fires one strike early.
reached_limit_early(strikes) == strikes + 1 >= num_strikes_allowed

\* Player.lose_round: the test that triggers elimination.
reached_limit(strikes) == strikes = num_strikes_allowed

\* Player.lose_round raises no exception (players.remove finds the player).
lose_round_defined(self) ==
    reached_limit(strikes_after_loss(self)) => InList(players, self)

\* Player.lose_round, when it raises no exception.
lose_round(self) ==
    /\ current_word_fragment' = reset_current_word_fragment
    /\ played' = <<>>
    /\ author' = None
    /\ current_strikes' = [current_strikes EXCEPT ![self] = strikes_after_loss(self)]
    /\ IF reached_limit(current_strikes'[self])
       THEN eliminate_player(self)
       ELSE UNCHANGED <<players, player_count>>
    /\ UNCHANGED is_eliminated

\* A letter test that folds case before looking the letter up.
is_letter_any_case(letter) ==
    Len(letter) = 1 /\ lower_char(letter[1]) \in ascii_lowercase

\* Player.play_letter raises no ValueError.
is_letter(letter) == Len(letter) = 1 /\ letter[1] \in ascii_lowercase

\* A play_letter that puts the letter in front of the fragment.
fragment_after_play_prepend(letter) == letter \o current_word_fragment

\* Player.play_letter, when it raises no exception: the fragment it leaves.
fragment_after_play(letter) == current_word_fragment \o letter

play_letter(self, letter) ==
    /\ current_word_fragment' = fragment_after_play(letter)
    /\ played' = played \o letter
    /\ author' = self
    /\ UNCHANGED <<current_strikes, is_eliminated, players, player_count>>

\* ----------------------------------------------------------- Game.start()
\* start(), line 1: current_player = players[0] (IndexError on an empty roster).
Start ==
    /\ pc = "created"
    /\ IF HasItem(players, 0)
       THEN /\ current_player' = GetItem(players, 0)
            /\ pc' = "loop"
            /\ UNCHANGED exception
       ELSE /\ pc' = "crashed"
            /\ exception' = "IndexError"
            /\ UNCHANGED current_player
    /\ last' = Record("start", None, <<>>, ~HasItem(players, 0), FALSE, <<>>)
    /\ UNCHANGED <<player_count, players, config, current_word_fragment,
                   game_is_over, current_strikes, is_eliminated, next_player,
                   winner, played, author, prev_turn, this_turn>>

\* The while test and next_player = get_next_player(); then the current
\* player's take_turn() is entered.
BeginTurn ==
    /\ pc = "loop"
    /\ IF game_is_over
       THEN /\ pc' = "done"
            /\ UNCHANGED <<next_player, exception, prev_turn, this_turn>>
       ELSE IF next_player_defined
       THEN /\ next_player' = get_next_player
            /\ pc' = "turn"
            /\ prev_turn' = this_turn
            /\ this_turn' = [taker |-> current_player, roster |-> players]
            /\ UNCHANGED exception
       ELSE /\ pc' = "crashed"
            /\ exception' = IF InList(players, current_player)
                            THEN "IndexError" ELSE "ValueError"
            /\ UNCHANGED <<next_player, prev_turn, this_turn>>
    /\ last' = Record("begin", current_player, <<>>,
                      ~game_is_over /\ ~next_player_defined, FALSE, <<>>)
    /\ UNCHANGED <<player_count, players, current_player, config,
                   current_word_fragment, game_is_over, current_strikes,
                   is_eliminated, winner, played, author>>

\* A game-over test that also fires while two players remain.
at_most_two_players_remain == player_count <= 2

\* A game-over test that fires when two players remain.
two_players_remain == player_count = 2

\* Game.check_for_game_over: its test.
one_player_remains == player_count = 1

\* Game.check_for_game_over, called once the turn has returned.
CheckForGameOver ==
    /\ pc = "check"
    /\ IF one_player_remains
       THEN IF HasItem(players, 0)
            THEN /\ winner' = GetItem(players, 0)
                 /\ game_is_over' = TRUE
                 /\ pc' = "advance"
                 /\ UNCHANGED exception
            ELSE /\ pc' = "crashed"
                 /\ exception' = "IndexError"
                 /\ UNCHANGED <<winner, game_is_over>>
       ELSE /\ pc' = "advance"
            /\ UNCHANGED <<winner, game_is_over, exception>>
    /\ last' = Record("check", current_player, <<>>,
                      one_player_remains /\ ~HasItem(players, 0), FALSE, <<>>)
    /\ UNCHANGED <<player_count, players, current_player, config,
                   current_word_fragment, current_strikes, is_eliminated,
                   next_player, played, author, prev_turn, this_turn>>

\* current_player = next_player, the last statement of the loop body.
Advance ==
    /\ pc = "advance"
    /\ current_player' = next_player
    /\ pc' = "loop"
    /\ last' = Record("advance", current_player, <<>>, FALSE, FALSE, <<>>)
    /\ UNCHANGED <<player_count, players, config, current_word_fragment,
                   game_is_over, current_strikes, is_eliminated, next_player,
                   exception, winner, played, author, prev_turn, this_turn>>

\* ------------------------------------------------- HumanPlayer.take_turn
\* What the console can answer to "LETTER:".
LetterInputs == {<<>>, <<"a">>, <<"b">>, <<"A">>, <<"1">>, <<"a", "b">>}

\* What the console can answer to "TURN TYPE:" besides the three turn types.
OtherTurnTypes == {"", "PLAY"}

\* A reprompt that starts the round over: the fragment is emptied.
Reprompt_new_round(op, arg) ==
    /\ pc' = "turn"
    /\ last' = Record(op, current_player, arg, FALSE, FALSE, <<>>)
    /\ current_word_fragment' = <<>>
    /\ UNCHANGED <<player_count, players, current_player, config,
                   game_is_over, current_strikes, is_eliminated, next_player,
                   exception, winner, played, author, prev_turn, this_turn>>

\* take_turn() prints a complaint and calls itself: the same player is asked
\* again, nothing else has changed.
Reprompt(op, arg) ==
    /\ pc' = "turn"
    /\ last' = Record(op, current_player, arg, FALSE, FALSE, <<>>)
    /\ UNCHANGED <<player_count, players, current_player, config,
                   current_word_fragment, game_is_over, current_strikes,
                   is_eliminated, next_player, exception, winner, played,
                   author,
                   prev_turn, this_turn>>

\* The operation raised: start() ends with the exception.
Crash(op, self, arg, exc) ==
    /\ pc' = "crashed"
    /\ exception' = exc
    /\ last' = Record(op, self, arg, TRUE, FALSE, <<>>)
    /\ UNCHANGED <<player_count, players, current_player, config,
                   current_word_fragment, game_is_over, current_strikes,
                   is_eliminated, next_player, winner, played, author, prev_turn,
                   this_turn>>

\* Player.forfeit_round (lose_round on self), the turn then returning.
forfeit_round(op, self) ==
    IF lose_round_defined(self)
    THEN /\ lose_round(self)
         /\ pc' = "check"
         /\ last' = Record(op, self, <<>>, FALSE, FALSE, <<self>>)
         /\ UNCHANGED <<current_player, config, game_is_over, next_player,
                        exception, winner, prev_turn, this_turn>>
    ELSE Crash(op, self, <<>>, "ValueError")

\* turn_type == 'play': the letter is lower-cased and checked, then played.
TakeTurnPlay ==
    /\ pc = "turn"
    /\ \E input \in LetterInputs :
        LET letter_to_play == lower(input)
        IN  IF Len(letter_to_play) # 1
            THEN Reprompt("reprompt_play", input)
            ELSE IF letter_to_play[1] \notin ascii_lowercase
            THEN Reprompt("reprompt_play", input)
            ELSE /\ Len(current_word_fragment) < MaxFragLen
                 /\ play_letter(current_player, letter_to_play)
                 /\ pc' = "check"
                 /\ last' = Record("play", current_player, letter_to_play,
                                   FALSE, FALSE, <<>>)
                 /\ UNCHANGED <<current_player, config, game_is_over,
                                next_player, exception, winner, prev_turn,
                                this_turn>>

\* turn_type == 'challenge': refused on an empty fragment; otherwise
\* self.challenge_previous_player(), a method no class defines.
TakeTurnChallenge ==
    /\ pc = "turn"
    /\ IF current_word_fragment = <<>>
       THEN Reprompt("reprompt_challenge", <<>>)
       ELSE Crash("challenge", current_player, <<>>, "AttributeError")

\* turn_type == 'forfeit'.
TakeTurnForfeit ==
    /\ pc = "turn"
    /\ current_strikes[current_player] < num_strikes_allowed + MaxExtraStrikes
    /\ forfeit_round("forfeit", current_player)

\* Any other turn type.
TakeTurnOther ==
    /\ pc = "turn"
    /\ \E turn_type \in OtherTurnTypes : Reprompt("reprompt_type", <<turn_type>>)

Next ==
    \/ Start
    \/ BeginTurn
    \/ TakeTurnPlay
    \/ TakeTurnChallenge
    \/ TakeTurnForfeit
    \/ TakeTurnOther
    \/ CheckForGameOver
    \/ Advance

Spec == Init /\ [][Next]_vars

\* The games app.py sets up, with two players or more: the default ghost word
\* 'GHOST' between two players, and its shorter prefixes among up to
\* MaxPlayers players; the default dictionary.
InitFair ==
    \/ NewGame(2, <<"g", "h", "o", "s", "t">>, 2, "scrabble")
    \/ \E n \in 2..MaxPlayers, g \in GhostWords \ {<<>>} :
           NewGame(n, g, 2, "scrabble")

\* start() is one thread of control: each statement of its loop that can run
\* does run.  What the players type is not constrained.
SpecFair ==
    /\ InitFair
    /\ [][Next]_vars
    /\ WF_vars(Start)
    /\ WF_vars(BeginTurn)
    /\ WF_vars(CheckForGameOver)
    /\ WF_vars(Advance)

\* ------------------------------------------------ the methods called directly
\* The letters a caller passes to play_letter.
LetterArgs == LetterInputs

\* The intended words respond_to_challenge() returns or a caller passes to
\* is_valid_intended_word.
IntendedWords ==
    {NoWord, <<>>, <<"a", "b">>, <<"b", "a">>, <<"a", "b", "b">>}

\* The call raised and the caller caught it: the turn is still to be taken.
Raised(op, self, arg) ==
    /\ pc' = "turn"
    /\ last' = Record(op, self, arg, TRUE, FALSE, <<>>)
    /\ UNCHANGED <<player_count, players, current_player, config,
                   current_word_fragment, game_is_over, current_strikes,
                   is_eliminated, next_player, exception, winner, played,
                   author,
                   prev_turn, this_turn>>

\* A round lost by loser ends the turn of self.
RoundLost(op, self, arg, loser) ==
    /\ current_strikes[loser] < num_strikes_allowed + MaxExtraStrikes
    /\ IF lose_round_defined(loser)
       THEN /\ lose_round(loser)
            /\ pc' = "check"
            /\ last' = Record(op, self, arg, FALSE, FALSE, <<loser>>)
            /\ UNCHANGED <<current_player, config, game_is_over, next_player,
                           exception, winner, prev_turn, this_turn>>
       ELSE Raised(op, self, arg)

\* current_player.play_letter(letter).
CallPlayLetter ==
    /\ pc = "turn"
    /\ \E letter \in LetterArgs :
        IF is_letter(letter)
        THEN /\ Len(current_word_fragment) < MaxFragLen
             /\ play_letter(current_player, letter)
             /\ pc' = "check"
             /\ last' = Record("play_letter", current_player, letter,
                               FALSE, FALSE, <<>>)
             /\ UNCHANGED <<current_player, config, game_is_over, next_player,
                            exception, winner, prev_turn, this_turn>>
        ELSE Raised("play_letter", current_player, letter)

\* current_player.forfeit_round().
CallForfeitRound ==
    /\ pc = "turn"
    /\ RoundLost("forfeit_round", current_player, <<>>, current_player)

\* A complete-challenge that punishes the wrong side.
complete_challenge_loser_swapped(self) ==
    IF is_valid_word(current_word_fragment) THEN self ELSE get_previous_player

\* Player.challenge_previous_player_as_complete: who loses the round.
complete_challenge_loser(self) ==
    IF is_valid_word(current_word_fragment) THEN get_previous_player ELSE self

\* current_player.challenge_previous_player_as_complete(); the challenge
\* message reads current_word_fragment[-1] (IndexError on an empty fragment).
CallChallengeAsComplete ==
    /\ pc = "turn"
    /\ IF previous_player_defined /\ current_word_fragment # <<>>
       THEN RoundLost("challenge_as_complete", current_player, <<>>,
                      complete_challenge_loser(current_player))
       ELSE Raised("challenge_as_complete", current_player, <<>>)

\* An impossible-challenge that only looks the intended word up.
impossible_challenge_loser_no_prefix(self, prev_player_intended_word) ==
    IF prev_player_intended_word # NoWord /\ is_valid_word(prev_player_intended_word)
    THEN self
    ELSE get_previous_player

\* Player.challenge_previous_player_as_impossible: who loses the round, the
\* previous player having answered prev_player_intended_word.
impossible_challenge_loser(self, prev_player_intended_word) ==
    IF is_valid_intended_word(prev_player_intended_word)
    THEN self
    ELSE get_previous_player

\* current_player.challenge_previous_player_as_impossible().
CallChallengeAsImpossible ==
    /\ pc = "turn"
    /\ IF previous_player_defined /\ current_word_fragment # <<>>
       THEN \E word \in IntendedWords :
                RoundLost("challenge_as_impossible", current_player, word,
                          impossible_challenge_loser(current_player, word))
       ELSE Raised("challenge_as_impossible", current_player, <<>>)

\* game.is_valid_intended_word(word): only the answer is new.
CallIsValidIntendedWord ==
    /\ pc = "turn"
    /\ \E word \in IntendedWords :
        last' = Record("is_valid_intended_word", current_player, word, FALSE,
                       is_valid_intended_word(word), <<>>)
    /\ UNCHANGED <<player_count, players, current_player, config,
                   current_word_fragment, game_is_over, current_strikes,
                   is_eliminated, next_player, pc, exception, winner, played,
                   author,
                   prev_turn, this_turn>>

\* game.get_next_player() and game.get_previous_player() as a caller sees
\* them during a turn, and get_previous_player() once more with the next
\* player as current player: only the answers are new.
CallNeighbours ==
    /\ pc = "turn"
    /\ IF next_player_defined /\ previous_player_defined
       THEN last' = [Record("neighbours", current_player, <<>>, FALSE, FALSE, <<>>)
                       EXCEPT !.returned = <<get_next_player, get_previous_player,
                                             get_previous_player_of(get_next_player)>>]
       ELSE last' = Record("neighbours", current_player, <<>>, TRUE, FALSE, <<>>)
    /\ UNCHANGED <<player_count, players, current_player, config,
                   current_word_fragment, game_is_over, current_strikes,
                   is_eliminated, next_player, pc, exception, winner, played,
                   author,
                   prev_turn, this_turn>>

NextCalls ==
    \/ Start
    \/ BeginTurn
    \/ CallPlayLetter
    \/ CallForfeitRound
    \/ CallChallengeAsComplete
    \/ CallChallengeAsImpossible
    \/ CheckForGameOver
    \/ Advance

SpecCalls == Init /\ [][NextCalls]_vars

\* Games in which letters are played and intended words are asked about.
NextWords ==
    \/ Start
    \/ BeginTurn
    \/ CallPlayLetter
    \/ CallIsValidIntendedWord
    \/ CheckForGameOver
    \/ Advance

SpecWords == Init /\ [][NextWords]_vars

\* Games in which rounds are forfeited and the neighbours are asked for.
NextRoster ==
    \/ Start
    \/ BeginTurn
    \/ CallForfeitRound
    \/ CallNeighbours
    \/ CheckForGameOver
    \/ Advance

SpecRoster == Init /\ [][NextRoster]_vars

\* ------------------------------------------------------------------ claims
\* The roster entry after p, cyclically, on a given roster.
CyclicSuccessor(roster, p) ==
    roster[((ListIndex(roster, p) + 1) % Len(roster)) + 1]

\* The roster entry before p, cyclically, on a given roster.
CyclicPredecessor(roster, p) ==
    roster[((ListIndex(roster, p) + Len(roster) - 1) % Len(roster)) + 1]

\* check_for_game_over() has run and no turn has been taken since.
AfterCheck ==
    \/ pc \in {"advance", "done"}
    \/ pc = "loop" /\ last.op = "advance"

\* The operation just completed called lose_round() on some player.
RoundJustLost == ~last.raised /\ last.lost # <<>>

\* C1: in every reachable state of a game run by start(), whatever the number
\* of players and the ghost word, every player's current_strikes lies between
\* 0 and num_strikes_allowed inclusive.
C1_StrikesWithinLimit ==
    \A p \in AllPlayers :
        current_strikes[p] >= 0 /\ current_strikes[p] <= num_strikes_allowed

\* C2: after every completed lose_round(), a player is in the roster exactly
\* when their strike count is below num_strikes_allowed (removed when the
\* strikes reach the limit, once, and never with fewer strikes).
C2_InRosterIffBelowLimit ==
    RoundJustLost =>
        \A p \in AllPlayers :
            InList(players, p) <=> current_strikes[p] < num_strikes_allowed

\* C3 as stated: in the initial state and whenever check_for_game_over() has
\* just run, for every roster size, game_is_over is true exactly when the
\* roster holds exactly one player.
C3_GameOverIffOnePlayer ==
    (pc = "created" \/ AfterCheck) => (game_is_over <=> Len(players) = 1)

\* C3 amended: game_is_over is true only while the roster holds exactly one
\* player, who is the announced winner; and whenever check_for_game_over()
\* has just run, game_is_over is true exactly when the roster holds exactly
\* one player.  (Before the first check a roster of one is not yet over.)
C3_GameOverAfterCheck ==
    /\ game_is_over => Len(players) = 1 /\ winner = players[1]
    /\ AfterCheck => (game_is_over <=> Len(players) = 1)

\* C3 witness: a game created with three players has just been found over.
C3_Witness ==
    /\ Cardinality(AllPlayers) = 3
    /\ last.op = "check"
    /\ game_is_over
    /\ Len(last.roster) = 1

\* C4: the fragment is the concatenation, in play order, of the letters of the
\* successful play_letter calls since the last lost round (or since creation),
\* and it is empty right after any lose_round().
C4_FragmentIsLettersPlayed ==
    /\ current_word_fragment = played
    /\ RoundJustLost => current_word_fragment = <<>>

\* C4 witness: after a lost round, two different letters have been played.
C4_Witness ==
    /\ \E p \in AllPlayers : current_strikes[p] > 0
    /\ Len(current_word_fragment) = 2
    /\ current_word_fragment[1] # current_word_fragment[2]
    /\ last.op = "play_letter"

\* The state is as the last operation found it, but for `last` itself.
NothingChanged ==
    /\ current_word_fragment = last.fragment
    /\ current_strikes = last.strikes
    /\ players = last.roster

\* The last operation made exactly the player loser lose the round: one more
\* strike for loser, nobody else's changed, the fragment empty.
ExactlyLost(loser) ==
    /\ last.lost = <<loser>>
    /\ current_strikes = [last.strikes EXCEPT ![loser] = @ + 1]
    /\ current_word_fragment = <<>>

\* C5: challenge_previous_player_as_complete() called by the current player
\* on a non-empty fragment makes exactly one player lose the round: the
\* previous player if the fragment is in the word list, else the challenger;
\* the loser gains exactly one strike and the fragment becomes empty.
C5_CompleteChallengeLoser ==
    last.op = "challenge_as_complete" /\ last.fragment # <<>> =>
        /\ ~last.raised
        /\ ExactlyLost(IF InList(word_list, last.fragment)
                       THEN CyclicPredecessor(last.roster, last.self)
                       ELSE last.self)

\* C5 witness: among three players the fragment was a word, and the previous
\* player (who is not the next player) has lost the round.
C5_Witness ==
    /\ last.op = "challenge_as_complete"
    /\ Len(last.roster) = 3
    /\ InList(word_list, last.fragment)
    /\ last.lost = <<CyclicPredecessor(last.roster, last.self)>>
    /\ last.lost # <<CyclicSuccessor(last.roster, last.self)>>

\* C6: challenge_previous_player_as_impossible() called by the current player
\* on a non-empty fragment makes exactly one player lose the round: the
\* challenger if the previous player's intended word is in the word list and
\* starts with the fragment as it was when challenged, else (a null or
\* non-matching word included) the previous player.
C6_ImpossibleChallengeLoser ==
    last.op = "challenge_as_impossible" /\ last.fragment # <<>> =>
        /\ ~last.raised
        /\ ExactlyLost(IF /\ last.arg # NoWord
                          /\ InList(word_list, last.arg)
                          /\ startswith(last.arg, last.fragment)
                       THEN last.self
                       ELSE CyclicPredecessor(last.roster, last.self))

\* C6 witness: the intended word is in the word list but does not start with
\* the fragment, and the previous of three players has lost the round.
C6_Witness ==
    /\ last.op = "challenge_as_impossible"
    /\ Len(last.roster) = 3
    /\ InList(word_list, last.arg)
    /\ ~startswith(last.arg, last.fragment)
    /\ last.lost = <<CyclicPredecessor(last.roster, last.self)>>

\* C7: lose_round() on p empties the fragment, adds exactly 1 to p's strikes,
\* leaves every other strike count alone and changes the roster only by
\* removing p, and only when p's new count equals num_strikes_allowed; no
\* operation but lose_round changes a strike count; forfeit_round has exactly
\* this effect on the forfeiting player.
C7_LoseRoundEffect ==
    /\ RoundJustLost =>
        LET p == last.lost[1]
        IN  /\ ExactlyLost(p)
            /\ players = IF current_strikes[p] = num_strikes_allowed
                         THEN ListRemove(last.roster, p)
                         ELSE last.roster
    /\ ~RoundJustLost => current_strikes = last.strikes /\ players = last.roster
    /\ last.op = "forfeit_round" => ~last.raised /\ last.lost = <<last.self>>

\* C7 witness: a forfeit gave a player the last strike and removed them, while
\* another player already holds a strike.
C7_Witness ==
    /\ last.op = "forfeit_round"
    /\ current_strikes[last.self] = num_strikes_allowed
    /\ ~InList(players, last.self)
    /\ \E q \in AllPlayers : q # last.self /\ current_strikes[q] = 1
    /\ last.fragment # <<>>

\* C8 as stated: is_valid_intended_word(w) is true iff w is non-empty, starts
\* with the current fragment and is in the word list; and it modifies neither
\* the fragment nor the strikes nor the roster.
C8_ValidIffNonEmptyPrefixedWord ==
    last.op = "is_valid_intended_word" =>
        /\ last.result <=> /\ last.arg # NoWord
                           /\ last.arg # <<>>
                           /\ startswith(last.arg, last.fragment)
                           /\ InList(word_list, last.arg)
        /\ NothingChanged

\* C8 amended: is_valid_intended_word(w) is true iff w is not None, starts
\* with the current fragment and is in the word list (the empty string is
\* accepted when the fragment is empty and the word list holds it); and it
\* modifies neither the fragment nor the strikes nor the roster.
C8_ValidIffPrefixedWord ==
    last.op = "is_valid_intended_word" =>
        /\ last.result <=> /\ last.arg # NoWord
                           /\ startswith(last.arg, last.fragment)
                           /\ InList(word_list, last.arg)
        /\ NothingChanged

\* C8 witness: on a non-empty fragment, a word of the list that starts with
\* it has been accepted.
C8_Witness ==
    /\ last.op = "is_valid_intended_word"
    /\ last.result
    /\ last.fragment # <<>>
    /\ Len(last.arg) > Len(last.fragment)

\* C9: play_letter(letter) fails whenever letter is not exactly one lowercase
\* letter, leaving fragment, strikes and roster as they were; otherwise it
\* appends exactly that letter to the fragment and changes no strike count
\* and no roster entry.
C9_PlayLetterEffect ==
    last.op = "play_letter" =>
        /\ last.raised <=> ~(Len(last.arg) = 1 /\ last.arg[1] \in ascii_lowercase)
        /\ last.raised => NothingChanged
        /\ ~last.raised =>
            /\ current_word_fragment = last.fragment \o last.arg
            /\ current_strikes = last.strikes
            /\ players = last.roster

\* C9 witness: an uppercase letter has been refused on a non-empty fragment.
C9_Witness ==
    /\ last.op = "play_letter"
    /\ last.raised
    /\ last.arg = <<"A">>
    /\ last.fragment # <<>>

\* C10: in start() the first turn is taken by roster[0], and every later turn
\* by the cyclic successor of the player of the turn before, on the roster as
\* it was before that turn ran, whatever elimination the turn brought.
C10_TurnOrder ==
    pc = "turn" =>
        /\ this_turn.taker = current_player
        /\ prev_turn = NoTurn => current_player = players[1]
        /\ prev_turn # NoTurn =>
               current_player = CyclicSuccessor(prev_turn.roster, prev_turn.taker)

\* C10 witness: the last of three players was eliminated during their turn,
\* and the turn has wrapped round to the first of the roster.
C10_Witness ==
    /\ pc = "turn"
    /\ prev_turn # NoTurn
    /\ Len(prev_turn.roster) = 3
    /\ prev_turn.taker = prev_turn.roster[3]
    /\ ~InList(players, prev_turn.taker)
    /\ current_player = prev_turn.roster[1]

\* C11: in a game started with at least two players an eliminated player is
\* terminal: whoever is outside the roster holds exactly num_strikes_allowed
\* strikes (none gained since removal), every round is lost by a player who
\* was in the roster, and whenever a turn is about to begin or under way the
\* current player is in the live roster (the precomputed next player is never
\* used while stale, and the loop never fails on it).
C11_EliminatedIsTerminal ==
    Cardinality(AllPlayers) >= 2 =>
        /\ \A p \in AllPlayers :
               ~InList(players, p) => current_strikes[p] = num_strikes_allowed
        /\ RoundJustLost => InList(last.roster, last.lost[1])
        /\ pc = "turn" => InList(players, current_player)
        /\ pc = "loop" /\ ~game_is_over => InList(players, current_player)
        /\ exception \notin {"ValueError", "IndexError"}

\* C11 witness: of three players, the one before the challenger was removed
\* by a challenge, and the next turn is under way.
C11_Witness ==
    /\ pc = "turn"
    /\ Len(prev_turn.roster) = 3
    /\ Len(players) = 2
    /\ ~InList(players, CyclicPredecessor(prev_turn.roster, prev_turn.taker))

\* C12: on a roster of n >= 1 players with the current player at index i,
\* get_next_player() is the entry at (i+1) mod n and get_previous_player() the
\* entry at (i-1) mod n; so the previous player of the next player is the
\* current player; and neither lookup changes any state.
C12_CyclicNeighbours ==
    last.op = "neighbours" =>
        LET n == Len(players)
            i == ListIndex(players, current_player)
        IN  /\ ~last.raised
            /\ last.returned[1] = players[((i + 1) % n) + 1]
            /\ last.returned[2] = players[((i + n - 1) % n) + 1]
            /\ last.returned[3] = current_player
            /\ NothingChanged
            /\ current_player = last.self

\* C12 witness: on a roster shrunk from three players to two, the lookups
\* were made for the first player, whose previous player wraps to the last.
C12_Witness ==
    /\ last.op = "neighbours"
    /\ Cardinality(AllPlayers) = 3
    /\ Len(players) = 2
    /\ current_player = players[1]
    /\ last.returned = <<players[2], players[2], players[1]>>

\* The inputs take_turn() refuses.
Reprompts == {"reprompt_type", "reprompt_play", "reprompt_challenge"}

RoundsKeepBeingLost == []<>(pc = "done" \/ (pc = "check" /\ RoundJustLost))

\* start() has returned with the game over and one player left, who has
\* fewer than num_strikes_allowed strikes.
GameEnded ==
    /\ pc = "done"
    /\ game_is_over
    /\ Len(players) = 1
    /\ winner = players[1]
    /\ current_strikes[players[1]] < num_strikes_allowed

\* One of two players has as many strikes as the ghost word has letters.
OneOfTwoStruckOut ==
    /\ Cardinality(AllPlayers) = 2
    /\ \E p \in AllPlayers : current_strikes[p] = num_strikes_allowed

\* C14: with at least two players and a non-empty ghost word, if rounds keep
\* being lost (every turn completes and letter plays do not go on for ever),
\* start() eventually sets game_is_over and stops, one player being left in
\* the roster with fewer than num_strikes_allowed strikes; and between two
\* players, once one of them has lost as many rounds as the ghost word has
\* letters, that player is out, the other is the winner and the game ends.
C14_LossesEndTheGame ==
    /\ RoundsKeepBeingLost => <>GameEnded
    /\ OneOfTwoStruckOut ~>
           (GameEnded /\ current_strikes[CHOOSE p \in AllPlayers : p # winner]
                             = num_strikes_allowed)

\* C14 witness: the game on 'GHOST' between two players has ended after nine
\* lost rounds, five of them the loser's.
C14_Witness ==
    /\ GameEnded
    /\ num_strikes_allowed = 5
    /\ Cardinality(AllPlayers) = 2
    /\ current_strikes[winner] = 4

\* Some configuration has a player_type that is neither 'human' nor 'computer'
\* nor None.
InvalidPlayerType ==
    \E i \in 1..Len(player_configs) :
        player_configs[i] \notin {"human", "computer", "None"}

\* C15: Game(...) raises and produces no game whenever an entry of the
\* configuration list, at any position, has an invalid player_type, or the
\* dictionary name is not 'scrabble' or 'webster'; a game that was created has
\* exactly one distinct player per configuration entry, in configuration order.
C15_InvalidConfigFailsFast ==
    pc = "created" =>
        /\ ~InvalidPlayerType
        /\ word_list_type \in {"scrabble", "webster"}
        /\ Len(players) = Len(player_configs)
        /\ \A i, j \in 1..Len(players) : i < j => players[i] < players[j]

\* C16: when a human player enters 'challenge' on a non-empty fragment, the
\* turn completes with the challenge resolved: exactly one of the challenger
\* and the previous player loses the round, and the loop goes on to the
\* game-over check.
C16_ChallengeTurnCompletes ==
    last.op = "challenge" /\ last.fragment # <<>> =>
        /\ ~last.raised
        /\ pc = "check"
        /\ exception = "None"
        /\ \E loser \in {last.self, CyclicPredecessor(last.roster, last.self)} :
               ExactlyLost(loser)

\* The two challenge methods.
Challenges == {"challenge_as_complete", "challenge_as_impossible"}

\* C17: in a game of at least two players run by start(), whenever a turn
\* begins with a non-empty fragment, get_previous_player() is the player who
\* appended the fragment's last letter, who took the turn just before; so a
\* challenge penalises the challenger or the author of the last letter, also
\* after eliminations have shrunk the roster.
C17_PreviousPlayerIsAuthor ==
    Cardinality(AllPlayers) >= 2 =>
        /\ pc = "turn" /\ current_word_fragment # <<>> =>
               /\ previous_player_defined
               /\ get_previous_player = author
               /\ author = prev_turn.taker
               /\ author # current_player
        /\ last.op \in Challenges /\ last.fragment # <<>> =>
               /\ ~last.raised
               /\ Len(last.lost) = 1
               /\ last.lost[1] \in {last.self, prev_turn.taker}

\* C17 witness: the roster has shrunk from three players to two, the first of
\* them has challenged and the author of the last letter, the last player of
\* the roster, has lost the round.
C17_Witness ==
    /\ last.op \in Challenges
    /\ Cardinality(AllPlayers) = 3
    /\ Len(last.roster) = 2
    /\ last.self = last.roster[1]
    /\ last.lost = <<prev_turn.taker>>
    /\ prev_turn.taker = last.roster[2]

\* Effect (a) of a turn: one letter more, strikes and roster as before.
LetterAdded ==
    /\ \E letter \in ascii_lowercase :
           current_word_fragment = last.fragment \o <<letter>>
    /\ current_strikes = last.strikes
    /\ players = last.roster

\* Effect (b) of a turn: the fragment empty, one strike more for the current
\* or the previous player and for nobody else, that player at most removed.
RoundLostByOne ==
    /\ current_word_fragment = <<>>
    /\ \E loser \in {last.self, CyclicPredecessor(last.roster, last.self)} :
           /\ current_strikes = [last.strikes EXCEPT ![loser] = @ + 1]
           /\ players \in {last.roster, ListRemove(last.roster, loser)}

\* C18: every completed turn of start() either adds exactly one letter to the
\* fragment and changes no strike count and no roster entry, or empties the
\* fragment, gives exactly one player (the current or the previous one)
\* exactly one strike and removes at most one player; so the roster shrinks by
\* at most one per turn and, in a game started with at least two players, is
\* never empty.
C18_TurnEffect ==
    /\ pc = "check" =>
           /\ ~(LetterAdded /\ RoundLostByOne)
           /\ LetterAdded \/ RoundLostByOne
           /\ Len(players) >= Len(last.roster) - 1
    /\ Len(players) >= Len(this_turn.roster) - 1
    /\ Cardinality(AllPlayers) >= 2 => Len(players) >= 1

\* C18 witness: among three players a turn has ended with the round lost and
\* the loser removed, after an earlier turn that added a letter.
C18_Witness ==
    /\ pc = "check"
    /\ RoundLostByOne
    /\ Len(last.roster) = 3
    /\ Len(players) = 2
    /\ last.fragment # <<>>

\* C19: in every reachable state, a player's is_eliminated flag is true
\* exactly when the player has been removed from the roster.
C19_FlagIffRemoved ==
    \A p \in AllPlayers : is_eliminated[p] <=> ~InList(players, p)

\* C20: in every reachable state after a Game has been constructed,
\* player_count equals the number of players in the roster.
C20_PlayerCountIsRosterSize ==
    pc # "new" => player_count = Len(players)

====
